---- MODULE Spec2Model ----
(***************************************************************************)
(* count_console_logs.py: the backward brace-balance scope classifier,     *)
(* the per-file analysis and the run (enumeration, aggregation, report).   *)
(* Text lines are strings; indices are zero-based as in the source, so     *)
(* Python's lines[i] is lines[i + 1] here.                                 *)
(***************************************************************************)
EXTENDS Integers, Sequences, FiniteSets, TLC

VARIABLES
    lines,          \* is_console_log_behind_debug_config / analyze_file: the file's lines
    log_line_num,   \* classifier: zero-based index of the target line
    i,              \* classifier: loop variable of the backward scan
    brace_count,    \* classifier: running depth counter
    pc,             \* classifier: "scan" | "done"
    result,         \* classifier: returned boolean (meaningful when pc = "done")
    reads,          \* classifier: indices of lines the scan has read
    visited,        \* classifier: number of loop iterations executed
    idx,            \* analyze_file: enumerate() position, lines 0..idx-1 are processed
    results,        \* analyze_file: the results dict
    apc,            \* analyze_file: "loop" | "returned"
    tree,           \* main: the files under src/, path -> [readable, lines]
    phase,          \* main: "ts" | "tsx" | "summary" | "details" | "done" | "failed"
    todo,           \* main: paths the current rglob generator has yet to yield
    all_results,    \* main: the all_results dict
    analyzed,       \* main: paths for which analyze_file has returned
    failed_at,      \* main: the path whose read raised, <<>> if none
    output,         \* main: what has been printed, one record per line
    queue,          \* main: sorted(files_with_unguarded) entries not yet printed
    run,            \* how many times the program has been started
    prev            \* all_results at the end of the previous run

scanVars    == <<log_line_num, i, brace_count, pc, result, reads, visited>>
analyzeVars == <<idx, results, apc>>
mainVars    == <<tree, phase, todo, all_results, analyzed, failed_at, output,
                 queue, run, prev>>

vars == <<lines, scanVars, analyzeVars, mainVars>>

----------------------------------------------------------------------------
(* Bounds of the model.                                                    *)

MaxLines == 4
MaxFiles == 3
MaxRuns == 2

\* The lines a modelled file is built from.
LineKinds ==
    { "if(DEBUG_CONFIG){",
      "if(DEBUG_CONFIG){y();}",
      "if(x){",
      "}",
      "x();",
      " console.log(1);\n" }

Files == UNION { [1..n -> LineKinds] : n \in 1..MaxLines }

\* The paths a modelled tree is built from, and the files they may hold.
Paths == { "src/a.ts", "src/b.ts", "src/a.tsx", "src/a.js" }

TreeFiles ==
    { << "x();" >>,
      << "if(DEBUG_CONFIG){", " console.log(1);\n", "}" >>,
      << "if(DEBUG_CONFIG){", " console.log(1);\n", "}", "console.log(2);\n" >>,
      << " console.log(1);\n", " console.log(2);\n", " console.log(3);\n",
         " console.log(4);\n" >> }

TreeEntries ==
    { [readable |-> TRUE, lines |-> f] : f \in TreeFiles }
        \cup { [readable |-> FALSE, lines |-> <<>>] }

Trees ==
    UNION { [D -> TreeEntries] : D \in { E \in SUBSET Paths : Cardinality(E) <= MaxFiles } }

----------------------------------------------------------------------------
(* Python string primitives.                                               *)

\* str.count(c) for a one-character c
Count(s, c) == Cardinality({ p \in 1..Len(s) : SubSeq(s, p, p) = c })

\* pat in s
Contains(s, pat) ==
    \E p \in 1..(Len(s) - Len(pat) + 1) : SubSeq(s, p, p + Len(pat) - 1) = pat

\* The characters str.strip() removes (those with str.isspace()): U+0009 to
\* U+000D, U+001C to U+001F, U+0020, U+0085, U+00A0 and U+1680, the last
\* eight written as the characters themselves.  The remaining ones (U+2000
\* to U+200A, U+2028, U+2029, U+202F, U+205F, U+3000) cannot be written in
\* a string of this module, so no modelled line contains them.
Whitespace ==
    { " ", "\t", "\n", "\r", "\f",
      "", "", "", "", "", "", " ", " " }

\* str.strip()
Strip(s) ==
    LET keep == { p \in 1..Len(s) : SubSeq(s, p, p) \notin Whitespace }
    IN  IF keep = {} THEN ""
        ELSE SubSeq(s, CHOOSE p \in keep : \A q \in keep : p <= q,
                       CHOOSE p \in keep : \A q \in keep : q <= p)

----------------------------------------------------------------------------
(* is_console_log_behind_debug_config                                      *)

\* line.count('}') - line.count('{')
BraceDelta(line) == Count(line, "}") - Count(line, "{")

\* 'if' in line and 'DEBUG_CONFIG' in line
IsGuardLine(line) == Contains(line, "if") /\ Contains(line, "DEBUG_CONFIG")

\* first index of range(log_line_num - 1, -1, -1)
ScanStart_off(k) == k
ScanStart(k) == k - 1

\* brace_count >= 0 and i < log_line_num - 1
ShouldBreak_nofirst(bc, j, k) == bc >= 0
ShouldBreak(bc, j, k) == bc >= 0 /\ j < k - 1

\* the guard test of line 19
GuardHit(line, bc) == IsGuardLine(line) /\ bc < 0

\* The loop from index j with depth bc, and the final return False.
RECURSIVE ScanFrom(_, _, _, _)
ScanFrom(ls, k, j, bc) ==
    IF j < 0 THEN FALSE
    ELSE LET line == Strip(ls[j + 1])
             nb   == bc + BraceDelta(line)
         IN  IF GuardHit(line, nb) THEN TRUE
             ELSE IF ShouldBreak(nb, j, k) THEN FALSE
             ELSE ScanFrom(ls, k, j - 1, nb)

is_console_log_behind_debug_config(ls, k) == ScanFrom(ls, k, ScanStart(k), 0)

\* One iteration of the for loop.
ScanStep ==
    /\ pc = "scan"
    /\ i >= 0
    /\ LET line == Strip(lines[i + 1])
           nb   == brace_count + BraceDelta(line)
       IN  /\ reads' = reads \cup {i}
           /\ visited' = visited + 1
           /\ brace_count' = nb
           /\ IF GuardHit(line, nb)
                THEN /\ result' = TRUE
                     /\ pc' = "done"
                     /\ i' = i
                ELSE IF ShouldBreak(nb, i, log_line_num)
                THEN /\ result' = FALSE
                     /\ pc' = "done"
                     /\ i' = i
                ELSE /\ i' = i - 1
                     /\ UNCHANGED <<result, pc>>
    /\ UNCHANGED <<lines, log_line_num, analyzeVars, mainVars>>

\* The range is exhausted: fall through to return False.
ScanExhausted ==
    /\ pc = "scan"
    /\ i < 0
    /\ result' = FALSE
    /\ pc' = "done"
    /\ UNCHANGED <<lines, log_line_num, i, brace_count, reads, visited,
                   analyzeVars, mainVars>>

----------------------------------------------------------------------------
(* analyze_file                                                            *)

\* the results dict of lines 33-38
EmptyResults ==
    [ total |-> 0, behind_debug |-> 0, not_behind_debug |-> 0,
      not_behind_debug_lines |-> <<>> ]

\* The body of the enumerate loop for line j (zero-based) of ls.
AnalyzeLine_countall(res, ls, j) ==
    LET counted == [res EXCEPT !.total = @ + 1]
    IN  IF Contains(ls[j + 1], "console.log")
        THEN IF is_console_log_behind_debug_config(ls, j)
             THEN [counted EXCEPT !.behind_debug = @ + 1]
             ELSE [counted EXCEPT
                     !.not_behind_debug = @ + 1,
                     !.not_behind_debug_lines =
                         Append(@, [line_num |-> j + 1, line |-> Strip(ls[j + 1])])]
        ELSE counted
AnalyzeLine(res, ls, j) ==
    IF Contains(ls[j + 1], "console.log")
    THEN LET counted == [res EXCEPT !.total = @ + 1]
         IN  IF is_console_log_behind_debug_config(ls, j)
             THEN [counted EXCEPT !.behind_debug = @ + 1]
             ELSE [counted EXCEPT
                     !.not_behind_debug = @ + 1,
                     !.not_behind_debug_lines =
                         Append(@, [line_num |-> j + 1, line |-> Strip(ls[j + 1])])]
    ELSE res

\* The whole loop over lines j..len-1, as main sees it: the returned dict.
RECURSIVE AnalyzeFrom(_, _, _)
AnalyzeFrom(res, ls, j) ==
    IF j >= Len(ls) THEN res
    ELSE AnalyzeFrom(AnalyzeLine(res, ls, j), ls, j + 1)

analyze_file(ls) == AnalyzeFrom(EmptyResults, ls, 0)

\* One iteration of the enumerate loop.
AnalyzeStep ==
    /\ apc = "loop"
    /\ idx < Len(lines)
    /\ results' = AnalyzeLine(results, lines, idx)
    /\ idx' = idx + 1
    /\ UNCHANGED <<lines, apc, scanVars, mainVars>>

\* The loop is over: return results.
AnalyzeReturn ==
    /\ apc = "loop"
    /\ idx = Len(lines)
    /\ apc' = "returned"
    /\ UNCHANGED <<lines, idx, results, scanVars, mainVars>>

----------------------------------------------------------------------------
(* main                                                                    *)

\* rglob('*.ts') / rglob('*.tsx'): the file name ends with the suffix
Matches(path, suffix) ==
    /\ Len(path) >= Len(suffix)
    /\ SubSeq(path, Len(path) - Len(suffix) + 1, Len(path)) = suffix

Rglob(t, suffix) == { p \in DOMAIN t : Matches(p, suffix) }

\* the all_results dict of lines 56-61
EmptyAllResults ==
    [ total |-> 0, behind_debug |-> 0, not_behind_debug |-> 0,
      files_with_unguarded |-> <<>> ]

\* Lines 66-71 (and 76-81): add one file's results to the accumulator.
Accumulate_always(all, p, res) ==
    [ total |-> all.total + res.total,
      behind_debug |-> all.behind_debug + res.behind_debug,
      not_behind_debug |-> all.not_behind_debug + res.not_behind_debug,
      files_with_unguarded |->
          (p :> res.not_behind_debug_lines) @@ all.files_with_unguarded ]
Accumulate_overwrite(all, p, res) ==
    [ total |-> res.total,
      behind_debug |-> all.behind_debug + res.behind_debug,
      not_behind_debug |-> all.not_behind_debug + res.not_behind_debug,
      files_with_unguarded |->
          IF res.not_behind_debug_lines # <<>>
          THEN (p :> res.not_behind_debug_lines) @@ all.files_with_unguarded
          ELSE all.files_with_unguarded ]
Accumulate(all, p, res) ==
    [ total |-> all.total + res.total,
      behind_debug |-> all.behind_debug + res.behind_debug,
      not_behind_debug |-> all.not_behind_debug + res.not_behind_debug,
      files_with_unguarded |->
          IF res.not_behind_debug_lines # <<>>
          THEN (p :> res.not_behind_debug_lines) @@ all.files_with_unguarded
          ELSE all.files_with_unguarded ]

\* The body of either for loop for the yielded path p: analyze_file raises
\* when the file cannot be read or decoded, and nothing catches it.
LoopBody_skip(p) ==
    /\ todo' = todo \ {p}
    /\ IF tree[p].readable
       THEN /\ all_results' = Accumulate(all_results, p, analyze_file(tree[p].lines))
            /\ analyzed' = analyzed \cup {p}
            /\ UNCHANGED <<phase, failed_at>>
       ELSE UNCHANGED <<all_results, analyzed, phase, failed_at>>
    /\ UNCHANGED <<tree, output, queue, run, prev>>
LoopBody(p) ==
    /\ todo' = todo \ {p}
    /\ IF tree[p].readable
       THEN /\ all_results' = Accumulate(all_results, p, analyze_file(tree[p].lines))
            /\ analyzed' = analyzed \cup {p}
            /\ UNCHANGED <<phase, failed_at>>
       ELSE /\ phase' = "failed"
            /\ failed_at' = p
            /\ UNCHANGED <<all_results, analyzed>>
    /\ UNCHANGED <<tree, output, queue, run, prev>>

\* One iteration of the first loop; the generator yields in filesystem order.
AnalyzeTs ==
    /\ phase = "ts"
    /\ \E p \in todo : LoopBody(p)
    /\ UNCHANGED <<lines, scanVars, analyzeVars>>

\* The first generator is exhausted; the second loop starts.
StartTsx ==
    /\ phase = "ts"
    /\ todo = {}
    /\ phase' = "tsx"
    /\ todo' = Rglob(tree, ".tsx")
    /\ UNCHANGED <<tree, all_results, analyzed, failed_at, output, queue, run, prev>>
    /\ UNCHANGED <<lines, scanVars, analyzeVars>>

\* One iteration of the second loop.
AnalyzeTsx ==
    /\ phase = "tsx"
    /\ \E p \in todo : LoopBody(p)
    /\ UNCHANGED <<lines, scanVars, analyzeVars>>

\* The second generator is exhausted.
EndScan ==
    /\ phase = "tsx"
    /\ todo = {}
    /\ phase' = "summary"
    /\ UNCHANGED <<tree, todo, all_results, analyzed, failed_at, output, queue, run, prev>>
    /\ UNCHANGED <<lines, scanVars, analyzeVars>>

\* Code points of the characters of the modelled paths (str comparison).
CodePoint ==
    "." :> 46 @@ "/" :> 47 @@ "a" :> 97 @@ "b" :> 98 @@ "c" :> 99 @@
    "j" :> 106 @@ "r" :> 114 @@ "s" :> 115 @@ "t" :> 116 @@ "x" :> 120

\* a < b on Python strings, from position p on
RECURSIVE StrLessFrom(_, _, _)
StrLessFrom(a, b, p) ==
    IF p > Len(b) THEN FALSE
    ELSE IF p > Len(a) THEN TRUE
    ELSE LET ca == CodePoint[SubSeq(a, p, p)]
             cb == CodePoint[SubSeq(b, p, p)]
         IN  IF ca < cb THEN TRUE
             ELSE IF ca > cb THEN FALSE
             ELSE StrLessFrom(a, b, p + 1)

StrLess(a, b) == StrLessFrom(a, b, 1)

\* sorted(files_with_unguarded.items()): the keys are distinct, so the
\* pairs are ordered by path.
RECURSIVE SortedPaths_desc(_)
SortedPaths_desc(S) ==
    IF S = {} THEN <<>>
    ELSE LET last == CHOOSE p \in S : \A q \in S \ {p} : StrLess(q, p)
         IN  <<last>> \o SortedPaths_desc(S \ {last})
RECURSIVE SortedPaths(_)
SortedPaths(S) ==
    IF S = {} THEN <<>>
    ELSE LET first == CHOOSE p \in S : \A q \in S \ {p} : StrLess(p, q)
         IN  <<first>> \o SortedPaths(S \ {first})

ExampleLimit == 3
SnippetLen == 80

\* logs[:3]
FirstExamples(logs) ==
    SubSeq(logs, 1, IF Len(logs) < ExampleLimit THEN Len(logs) ELSE ExampleLimit)

\* log['line'][:80]
Snippet(s) == SubSeq(s, 1, IF Len(s) < SnippetLen THEN Len(s) ELSE SnippetLen)

\* The four print calls of lines 84-87, and the sorted() of line 90.
PrintSummary ==
    /\ phase = "summary"
    /\ output' = output \o
           << [kind |-> "total", value |-> all_results.total],
              [kind |-> "behind", value |-> all_results.behind_debug],
              [kind |-> "not_behind", value |-> all_results.not_behind_debug],
              [kind |-> "files",
               value |-> Cardinality(DOMAIN all_results.files_with_unguarded)] >>
    /\ queue' = SortedPaths(DOMAIN all_results.files_with_unguarded)
    /\ phase' = "details"
    /\ UNCHANGED <<tree, todo, all_results, analyzed, failed_at, run, prev>>
    /\ UNCHANGED <<lines, scanVars, analyzeVars>>

\* The lines printed for one file (lines 91-95).
FileSection(path, logs) ==
    LET shown == FirstExamples(logs)
    IN  << [kind |-> "file", path |-> path, count |-> Len(logs)] >>
        \o [e \in 1..Len(shown) |->
               [kind |-> "example", line_num |-> shown[e].line_num,
                text |-> Snippet(shown[e].line)]]
        \o (IF Len(logs) > ExampleLimit
            THEN << [kind |-> "more", count |-> Len(logs) - ExampleLimit] >>
            ELSE <<>>)

\* One iteration of the report loop.
PrintFile ==
    /\ phase = "details"
    /\ queue # <<>>
    /\ output' = output \o
           FileSection(Head(queue), all_results.files_with_unguarded[Head(queue)])
    /\ queue' = Tail(queue)
    /\ UNCHANGED <<tree, phase, todo, all_results, analyzed, failed_at, run, prev>>
    /\ UNCHANGED <<lines, scanVars, analyzeVars>>

\* The report loop is over; main returns.
Finish ==
    /\ phase = "details"
    /\ queue = <<>>
    /\ phase' = "done"
    /\ UNCHANGED <<tree, todo, all_results, analyzed, failed_at, output, queue, run, prev>>
    /\ UNCHANGED <<lines, scanVars, analyzeVars>>

\* The program is started again on the unchanged tree.
Rerun ==
    /\ phase = "done"
    /\ run < MaxRuns
    /\ run' = run + 1
    /\ prev' = all_results
    /\ phase' = "ts"
    /\ todo' = Rglob(tree, ".ts")
    /\ all_results' = EmptyAllResults
    /\ analyzed' = {}
    /\ output' = <<>>
    /\ queue' = <<>>
    /\ UNCHANGED <<tree, failed_at>>
    /\ UNCHANGED <<lines, scanVars, analyzeVars>>

----------------------------------------------------------------------------
(* Specifications.                                                         *)

ScanIdle ==
    /\ log_line_num = 0
    /\ i = -1
    /\ brace_count = 0
    /\ pc = "idle"
    /\ result = FALSE
    /\ reads = {}
    /\ visited = 0

AnalyzeIdle ==
    /\ idx = 0
    /\ results = EmptyResults
    /\ apc = "idle"

MainIdle ==
    /\ tree = <<>>
    /\ phase = "idle"
    /\ todo = {}
    /\ all_results = EmptyAllResults
    /\ analyzed = {}
    /\ failed_at = <<>>
    /\ output = <<>>
    /\ queue = <<>>
    /\ run = 0
    /\ prev = EmptyAllResults

\* The classifier on every file and every valid index.
Init ==
    /\ lines \in Files
    /\ log_line_num \in 0..(Len(lines) - 1)
    /\ i = ScanStart(log_line_num)
    /\ brace_count = 0
    /\ pc = "scan"
    /\ result = FALSE
    /\ reads = {}
    /\ visited = 0
    /\ AnalyzeIdle
    /\ MainIdle

Next == ScanStep \/ ScanExhausted

Spec == Init /\ [][Next]_vars

\* analyze_file on every file, the empty one included.
InitAnalyze ==
    /\ lines \in Files \cup {<<>>}
    /\ idx = 0
    /\ results = EmptyResults
    /\ apc = "loop"
    /\ ScanIdle
    /\ MainIdle

NextAnalyze == AnalyzeStep \/ AnalyzeReturn

SpecAnalyze == InitAnalyze /\ [][NextAnalyze]_vars

\* main on every tree, started up to MaxRuns times.
InitMain ==
    /\ tree \in Trees
    /\ phase = "ts"
    /\ todo = Rglob(tree, ".ts")
    /\ all_results = EmptyAllResults
    /\ analyzed = {}
    /\ failed_at = <<>>
    /\ output = <<>>
    /\ queue = <<>>
    /\ run = 1
    /\ prev = EmptyAllResults
    /\ lines = <<>>
    /\ ScanIdle
    /\ AnalyzeIdle

NextMain ==
    \/ AnalyzeTs
    \/ StartTsx
    \/ AnalyzeTsx
    \/ EndScan
    \/ PrintSummary
    \/ PrintFile
    \/ Finish
    \/ Rerun

SpecMain == InitMain /\ [][NextMain]_vars

----------------------------------------------------------------------------
(* Lexical block structure, used to state the classifier's contract:       *)
(* braces are matched left to right over lines 0..k-1; the stack holds,    *)
(* for every block still open, the index of the line that opened it.       *)

RECURSIVE MatchChars(_, _, _, _)
MatchChars(s, p, j, stack) ==
    IF p > Len(s) THEN stack
    ELSE LET c == SubSeq(s, p, p)
         IN  IF c = "{" THEN MatchChars(s, p + 1, j, Append(stack, j))
             ELSE IF c = "}" /\ stack # <<>>
                  THEN MatchChars(s, p + 1, j, SubSeq(stack, 1, Len(stack) - 1))
             ELSE MatchChars(s, p + 1, j, stack)

RECURSIVE MatchLines(_, _, _, _)
MatchLines(ls, j, k, stack) ==
    IF j >= k THEN stack
    ELSE MatchLines(ls, j + 1, k, MatchChars(ls[j + 1], 1, j, stack))

\* indices of the lines whose block is still open at line k
OpenBlockLines(ls, k) ==
    LET st == MatchLines(ls, 0, k, <<>>) IN { st[p] : p \in 1..Len(st) }

\* some block still open at line k was introduced by a guard line
InsideGuardBlock(ls, k) ==
    \E j \in OpenBlockLines(ls, k) : IsGuardLine(ls[j + 1])

\* depth(a) = sum over lines a..k-1 of (count of '}' - count of '{')
RECURSIVE Depth(_, _, _)
Depth(ls, a, k) ==
    IF a >= k THEN 0
    ELSE Count(ls[a + 1], "}") - Count(ls[a + 1], "{") + Depth(ls, a + 1, k)

\* lines a..b-1 form brace-balanced text containing at least one block
BalancedRun(ls, a, b) ==
    /\ a < b
    /\ MatchLines(ls, a, b, <<>>) = <<>>
    /\ \A m \in a..(b - 1) : Depth(ls, a, m + 1) <= 0
    /\ \E m \in a..(b - 1) : Count(ls[m + 1], "{") > 0

----------------------------------------------------------------------------
(* Claims about the classifier, checked under Spec.                        *)

\* C1 (completeness): whenever the target line lies inside a still-open
\* block whose introducing line contains both 'if' and 'DEBUG_CONFIG', the
\* classifier returns true.
C1_Completeness ==
    (pc = "done" /\ InsideGuardBlock(lines, log_line_num)) => result = TRUE

\* C2 (soundness): whenever no block still open at the target line was
\* introduced by a line containing both 'if' and 'DEBUG_CONFIG', the
\* classifier returns false.
C2_Soundness ==
    (pc = "done" /\ ~InsideGuardBlock(lines, log_line_num)) => result = FALSE

\* C3 (scenario D): when a guard line's block encloses the target and the
\* lines between the guard line and the target are an unrelated, fully
\* closed brace block without the DEBUG_CONFIG marker, the classifier
\* returns true.
C3_ScenarioD ==
    (/\ pc = "done"
     /\ \E j \in OpenBlockLines(lines, log_line_num) :
            /\ IsGuardLine(lines[j + 1])
            /\ BalancedRun(lines, j + 1, log_line_num)
            /\ Contains(lines[j + 2], "if")
            /\ \A m \in (j + 1)..(log_line_num - 1) :
                   ~Contains(lines[m + 1], "DEBUG_CONFIG"))
    => result = TRUE

\* C5 (totality): for every valid index k, k = 0 included, the scan visits
\* at most k lines, reads only indices in 0..k-1, each of them an index of
\* the file, moves one line towards the start of the file with every line
\* it visits, and returns a boolean.
C5_Totality ==
    /\ reads \subseteq 0..(log_line_num - 1)
    /\ visited <= log_line_num
    /\ i \in -1..(log_line_num - 1)
    /\ result \in BOOLEAN
    /\ pc \in {"scan", "done"}
    /\ pc = "scan" =>
           /\ i = log_line_num - 1 - visited
           /\ i >= 0 => i + 1 \in DOMAIN lines

C5_Witness ==
    /\ pc = "done"
    /\ log_line_num >= 3
    /\ visited = log_line_num
    /\ reads = 0..(log_line_num - 1)

\* C10 (exact characterisation): the classifier returns true iff some line
\* j < k contains both 'if' and 'DEBUG_CONFIG', depth(j) < 0, and
\* depth(m) < 0 for every m with j < m < k-1.
C10_Characterisation ==
    pc = "done" =>
        (result = TRUE <=>
            \E j \in 0..(log_line_num - 1) :
                /\ IsGuardLine(lines[j + 1])
                /\ Depth(lines, j, log_line_num) < 0
                /\ \A m \in (j + 1)..(log_line_num - 2) :
                       Depth(lines, m, log_line_num) < 0)

C10_Witness ==
    /\ pc = "done"
    /\ result = TRUE
    /\ log_line_num >= 3
    /\ ~IsGuardLine(lines[log_line_num])
    /\ ~IsGuardLine(lines[log_line_num - 1])
    /\ Depth(lines, log_line_num - 1, log_line_num) = 0

----------------------------------------------------------------------------
(* Claims about analyze_file, checked under SpecAnalyze.                   *)

\* C4 (counting invariant): after any prefix of the lines, total =
\* behind_debug + not_behind_debug, total is the number of processed lines
\* containing 'console.log', and not_behind_debug_lines has not_behind_debug
\* entries, one per counted line and none for a line without the substring.
C4_Counting ==
    apc \in {"loop", "returned"} =>
        /\ results.total = results.behind_debug + results.not_behind_debug
        /\ results.total =
               Cardinality({ j \in 0..(idx - 1) : Contains(lines[j + 1], "console.log") })
        /\ Len(results.not_behind_debug_lines) = results.not_behind_debug
        /\ \A e \in 1..Len(results.not_behind_debug_lines) :
               LET n == results.not_behind_debug_lines[e].line_num
               IN  n \in 1..idx /\ Contains(lines[n], "console.log")

C4_Witness ==
    /\ apc = "returned"
    /\ results.behind_debug >= 1
    /\ results.not_behind_debug >= 1
    /\ results.total < Len(lines)

----------------------------------------------------------------------------
(* Claims about the run, checked under SpecMain.                           *)

\* the paths either generator yields
Enumerated(t) == Rglob(t, ".ts") \cup Rglob(t, ".tsx")

\* zero-based indices of the unguarded occurrences of a file
UnguardedIdx(ls) ==
    { j \in 0..(Len(ls) - 1) :
        Contains(ls[j + 1], "console.log") /\ ~is_console_log_behind_debug_config(ls, j) }

RECURSIVE SumLens(_, _)
SumLens(f, S) ==
    IF S = {} THEN 0
    ELSE LET p == CHOOSE q \in S : TRUE IN Len(f[p]) + SumLens(f, S \ {p})

\* C6 (error handling): when reading an enumerated file fails the run stops
\* at that file, which is neither skipped nor analyzed, nothing further
\* happens, and no report line is printed; a report line is printed only
\* once every .ts and .tsx file has been analyzed.
C6_ErrorAborts ==
    /\ phase = "failed" =>
           /\ output = <<>>
           /\ failed_at \in Enumerated(tree)
           /\ ~tree[failed_at].readable
           /\ failed_at \notin analyzed
           /\ ~ENABLED NextMain
    /\ \A p \in analyzed : tree[p].readable
    /\ (output # <<>> \/ phase \in {"summary", "details", "done"}) =>
           \A p \in Enumerated(tree) : tree[p].readable /\ p \in analyzed

C6_Witness ==
    /\ phase = "failed"
    /\ analyzed # {}
    /\ Enumerated(tree) \ (analyzed \cup {failed_at}) # {}

\* C7 (RunSummary restriction): a path is a key of files_with_unguarded iff
\* the file has been analyzed and has an unguarded occurrence; its list is
\* non-empty and is exactly the file's unguarded occurrences in increasing
\* line order; total = behind_debug + not_behind_debug and not_behind_debug
\* is the sum of the lengths of the stored lists.
C7_Restriction ==
    phase # "idle" =>
        LET fwu == all_results.files_with_unguarded
        IN  /\ \A p \in Paths :
                   p \in DOMAIN fwu <=>
                       (p \in analyzed /\ UnguardedIdx(tree[p].lines) # {})
            /\ \A p \in DOMAIN fwu :
                   LET l == fwu[p]
                   IN  /\ l # <<>>
                       /\ { l[e].line_num - 1 : e \in 1..Len(l) } =
                              UnguardedIdx(tree[p].lines)
                       /\ \A e, f \in 1..Len(l) :
                              e < f => l[e].line_num < l[f].line_num
                       /\ \A e \in 1..Len(l) :
                              l[e].line = Strip(tree[p].lines[l[e].line_num])
            /\ all_results.total =
                   all_results.behind_debug + all_results.not_behind_debug
            /\ all_results.not_behind_debug = SumLens(fwu, DOMAIN fwu)

C7_Witness ==
    /\ phase = "done"
    /\ DOMAIN all_results.files_with_unguarded # {}
    /\ analyzed \ DOMAIN all_results.files_with_unguarded # {}
    /\ all_results.behind_debug > 0

\* C8 (idempotence): a second run over the unchanged tree ends its scan
\* with the same RunSummary as the first, whatever order either run
\* enumerated the files in.
C8_Idempotent ==
    (run >= 2 /\ phase \in {"summary", "details", "done"}) => all_results = prev

C8_Witness ==
    /\ run = 2
    /\ phase = "done"
    /\ Cardinality(Rglob(tree, ".ts")) >= 2
    /\ Cardinality(DOMAIN all_results.files_with_unguarded) >= 2
    /\ all_results = prev

\* C9 (report shape): the file sections follow the four grand-total lines
\* in ascending path order; a file with n unguarded occurrences gets exactly
\* min(n, 3) example lines, the first occurrences in line order, and a
\* remaining-count line n - 3 iff n > 3.
C9_ReportShape ==
    LET n == Len(output)
        isFile(p) == output[p].kind = "file"
    IN  /\ n > 0 =>
               /\ n >= 4
               /\ output[1].kind = "total"
               /\ output[2].kind = "behind"
               /\ output[3].kind = "not_behind"
               /\ output[4].kind = "files"
        /\ \A p \in 5..n : output[p].kind \in {"file", "example", "more"}
        /\ \A p, q \in 1..n :
               (p < q /\ isFile(p) /\ isFile(q)) => StrLess(output[p].path, output[q].path)
        /\ \A p \in 1..n :
               isFile(p) =>
                   LET ls   == tree[output[p].path].lines
                       cnt  == Cardinality(UnguardedIdx(ls))
                       m    == IF cnt < 3 THEN cnt ELSE 3
                   IN  /\ output[p].count = cnt
                       /\ p + m <= n
                       /\ \A e \in 1..m :
                              /\ output[p + e].kind = "example"
                              /\ output[p + e].line_num - 1 \in UnguardedIdx(ls)
                              /\ Cardinality({ j \in UnguardedIdx(ls) :
                                                 j < output[p + e].line_num - 1 }) = e - 1
                       /\ IF cnt > 3
                          THEN /\ p + m + 1 <= n
                               /\ output[p + m + 1] = [kind |-> "more", count |-> cnt - 3]
                               /\ (p + m + 1 = n \/ isFile(p + m + 2))
                          ELSE p + m = n \/ isFile(p + m + 1)
        /\ phase = "done" =>
               { output[p].path : p \in { q \in 1..n : isFile(q) } } =
                   DOMAIN all_results.files_with_unguarded

C9_Witness ==
    /\ phase = "done"
    /\ Cardinality({ p \in 1..Len(output) : output[p].kind = "file" }) >= 2
    /\ \E p \in 1..Len(output) : output[p].kind = "more"
    /\ \E p \in 1..Len(output) : output[p].kind = "file" /\ output[p].count <= 3

====
